---- MODULE Spec2Model ----
(***************************************************************************)
(* Robust Deviation Scoring Engine of yutansang/stock-reports.             *)
(*                                                                         *)
(* The repository holds near-duplicate scripts ("variants"); each one      *)
(* fetches price series, scores every indicator, and aggregates the        *)
(* indicators into a report.  A run of one variant is modelled as a state  *)
(* machine: one action per indicator block of get_*_indicators, then the   *)
(* report generation.                                                      *)
(*                                                                         *)
(* Numbers: z-scores are kept in tenths (2.2 sigma = 22), weights in       *)
(* hundredths, weighted scores in units of 1/600 (see ScoreUnit).          *)
(*                                                                         *)
(* A series is abstracted to [rows, rawz]: its number of rows and the raw  *)
(* standardized deviation (cur_bias - cur_mean) / cur_std, in tenths, that *)
(* its values give once both rolling windows are filled.                   *)
(***************************************************************************)
EXTENDS Integers, Sequences, FiniteSets, TLC

VARIABLES
    variant,      \* which script runs
    pc,           \* "fetch" (fetch_data_safe alone), "collect", "report", "done"
    step,         \* index of the next indicator block of get_*_indicators
    df_batch,     \* usa_stock: "none" | "ok" | "failed" (fetch_all_data)
    s_spy,        \* usa_stock: rows of the local variable s_spy
    indicators,   \* dimension -> sequence of result dicts
    last,         \* history variable: what the last indicator block did
    report,       \* outcome of generate_report / generate_html_report
    f_beh,        \* provider behaviour offered to a lone fetch_data_safe call
    f_out,        \* what that call returned
    grid,         \* which market inputs are explored: "run" | "levels"
    args,         \* arguments of a lone call of a pure function
    result,       \* what that call returned
    run,          \* us_econ_yu: number of the get_us_indicators run
    analyzer,     \* us_econ_yu: the MacroAnalyzer object the run uses
    cache,        \* us_econ_yu: lru_cache of fetch_data_safe, (self, ticker) -> value
    provider,     \* us_econ_yu: how the provider answers each symbol in this run
    provider_calls, \* us_econ_yu: yf.download calls per symbol in this run
    data_issues,  \* us_econ_yu: analyzer -> tickers of self.data_issues
    received,     \* us_econ_yu: what the last fetch_data_safe call returned
    deep_dive_config, \* china_s: DEEP_DIVE_CONFIG, code -> kind of entry
    leader,       \* china_s: code of etf_ranking_data[0]
    events        \* china_s: downloads and configuration lookups, in order

yu_vars == <<run, analyzer, cache, provider, provider_calls, data_issues, received>>

cc_vars == <<deep_dive_config, leader, events>>

vars == <<variant, pc, step, df_batch, s_spy, indicators, last, report, f_beh, f_out,
          grid, args, result, yu_vars, cc_vars>>

-----------------------------------------------------------------------------
(* Variants and their parameters *)

EconVariants  == {"china_econ", "japan_econ", "us_econ"}
StockVariants == {"china_stock", "japan_stock"}
Variants      == EconVariants \cup StockVariants \cup {"usa_stock"}
FetchVariants == (Variants \ {"usa_stock"}) \cup {"us_econ_yu"}

Dims == <<"E", "S", "P", "T">>
DimSet == {"E", "S", "P", "T"}

window_long == 252

\* int(self.window_long * 1.2) and int(self.window_long * 0.85)
min_data_points(v) ==
    IF v \in EconVariants THEN (window_long * 120) \div 100
    ELSE (window_long * 85) \div 100

\* len(series) below this returns (0, 0.0) from the scorer
scorer_min_len(v) ==
    IF v = "china_econ" THEN (window_long * 8) \div 10
    ELSE min_data_points(v)

\* min_periods of the rolling mean that gives the trend
trend_min_periods(v) ==
    CASE v = "china_econ" -> (window_long * 8) \div 10
      [] v \in {"japan_econ", "us_econ"} -> window_long
      [] OTHER -> min_data_points(v)

\* min_periods of the rolling mean / std of the bias series
disp_min_periods(v) ==
    IF v = "china_econ" THEN (window_long * 8) \div 10 ELSE window_long

\* np.clip bound, in tenths
clip_bound(v) == IF v \in EconVariants THEN 40 ELSE 45

\* z_thresholds / thresholds, in tenths
z_thresholds(v) ==
    IF v \in EconVariants THEN [red |-> 20, orange |-> 10, green |-> -10]
    ELSE [red |-> 22, orange |-> 12, green |-> -10]

\* for _ in range(n) of fetch_data_safe
retries(v) ==
    IF v \in EconVariants THEN 2 ELSE 3     \* us_econ_yu: max_retries=3

-----------------------------------------------------------------------------
(* Inputs of the model *)

\* What one provider call does: raise, or return a frame with so many rows.
Raise   == -1
NoClose == -2     \* us_econ_yu: a non-empty frame without a 'Close' column
Rows    == {0, 5, 100, 250, 400, 600}
AttemptOutcomes(v) ==
    {Raise} \cup Rows \cup (IF v = "us_econ_yu" THEN {NoClose} ELSE {})

\* Raw standardized deviations offered to the scorer, in tenths.
RawZs  == {-50, -30, -15, 0, 15, 30, 50}
PipeZs == {50}
\* Row counts the provider returns during a whole run.
PipeRows == {0, 100, 600}
PipeOutcomes == {Raise, 100, 600}
LongRows == 600
\* Risk deviations of the "levels" grid: green, yellow, orange, red.
ReportZs == {-30, 0, 15, 30}
UntrackedZs == {-30, 30}

EmptySeries == [rows |-> 0, rawz |-> 0]

-----------------------------------------------------------------------------
(* SeriesStore: fetch_data_safe *)

\* One run of the retry loop over the provider behaviour beh (one outcome per
\* attempt).  log records provider calls and sleeps in program order.
\* A faulty loop: one attempt only, and a provider exception leaves the call.
fetch_once(v, beh, attempt, log, issues) ==
    LET o == beh[attempt] IN
    [rows |-> IF o > 10 THEN o ELSE 0, log |-> log \o <<"call">>,
     issues |-> issues, raised |-> o = Raise]

RECURSIVE fetch_loop(_, _, _, _, _)
fetch_loop(v, beh, attempt, log, issues) ==
    IF attempt > retries(v)
    THEN [rows |-> 0, log |-> log, issues |-> issues, raised |-> FALSE]
    ELSE LET o == beh[attempt]
             lastTry == attempt = retries(v)
         IN
         IF v = "us_econ_yu"
         THEN IF o >= 1
              THEN [rows |-> o, log |-> log \o <<"call">>, issues |-> issues,
                    raised |-> FALSE]
              ELSE \* empty frame, exception, or missing Close column
                   IF lastTry
                   THEN fetch_loop(v, beh, attempt + 1, log \o <<"call">>,
                                   issues + 1)
                   ELSE fetch_loop(v, beh, attempt + 1,
                                   log \o <<"call", "sleep">>, issues)
         ELSE IF o = Raise
              THEN fetch_loop(v, beh, attempt + 1, log \o <<"call", "sleep">>,
                              issues)
              ELSE IF o # 0 /\ o > 10
                   THEN [rows |-> o, log |-> log \o <<"call">>,
                         issues |-> issues, raised |-> FALSE]
                   ELSE fetch_loop(v, beh, attempt + 1, log \o <<"call">>,
                                   issues)

fetch_data_safe(v, beh) == fetch_loop(v, beh, 1, <<>>, 0)

Behaviours(v) == [1..retries(v) -> AttemptOutcomes(v)]

\* In a whole run every fetch sees a provider that answers the same way on
\* each of its attempts.
SteadyBehaviours(v) ==
    {[i \in 1..retries(v) |-> o] : o \in PipeOutcomes}

\* Rows of the series a fetch returns under behaviour b.
Fetched(v, b) == fetch_data_safe(v, b).rows

-----------------------------------------------------------------------------
(* DeviationScorer and IndicatorClassifier *)

Clip(z, b) == IF z > b THEN b ELSE IF z < -b THEN -b ELSE z

\* A faulty scorer: the direction flag is ignored.
calculate_robust_z_score_no_flip(v, series, inverse) ==
    IF series.rows < scorer_min_len(v)
       \/ series.rows - (trend_min_periods(v) - 1) < disp_min_periods(v)
    THEN [z |-> 0, bias |-> "0.0"]
    ELSE [z |-> Clip(series.rawz, clip_bound(v)), bias |-> "pct"]

\* calculate_robust_z_score of the fetch_and_analyze variants: (risk_z, bias).
\* bias is a token: "0.0" for the literal 0.0, "pct" for a computed bias.
calculate_robust_z_score(v, series, inverse) ==
    IF series.rows < scorer_min_len(v) THEN [z |-> 0, bias |-> "0.0"]
    ELSE LET biasRows == series.rows - (trend_min_periods(v) - 1) IN
         IF biasRows <= 0 THEN [z |-> 0, bias |-> "0.0"]
         ELSE IF v = "china_econ" /\ biasRows < disp_min_periods(v)
              THEN [z |-> 0, bias |-> "pct"]      \* bias_mean is NaN
              ELSE LET z_score == IF biasRows < disp_min_periods(v)
                                  THEN 0          \* cur_std is NaN
                                  ELSE series.rawz
                       clipped == Clip(z_score, clip_bound(v))
                   IN [z |-> IF inverse THEN -clipped ELSE clipped,
                       bias |-> "pct"]

\* A faulty rating chain: the comparisons are not strict.
classify_not_strict(v, z) ==
    IF z >= z_thresholds(v).red THEN [level |-> "red", msg |-> "extreme"]
    ELSE IF z >= z_thresholds(v).orange
         THEN [level |-> "orange", msg |-> "significant"]
         ELSE IF z <= z_thresholds(v).green
              THEN [level |-> "green", msg |-> "low_safe"]
              ELSE [level |-> "yellow", msg |-> "near_mean"]

\* The if / elif chain of fetch_and_analyze: (level, msg).
classify(v, z) ==
    IF z > z_thresholds(v).red THEN [level |-> "red", msg |-> "extreme"]
    ELSE IF z > z_thresholds(v).orange
         THEN [level |-> "orange", msg |-> "significant"]
         ELSE IF z < z_thresholds(v).green
              THEN [level |-> "green", msg |-> "low_safe"]
              ELSE [level |-> "yellow", msg |-> "near_mean"]

\* us_econ_yu: z_thresholds, in tenths
yu_thresholds == [red |-> 20, orange |-> 15, yellow |-> 10]

\* us_econ_yu: the z-score None of a series too short to score, and the NaN
\* of a rolling statistic with too few observations
None == -2000000001
NaN  == -2000000002

\* us_econ_yu: get_status_color(z_score, inverse): the status name.
get_status_color(z_score, inverse) ==
    IF z_score = None THEN "grey"
    ELSE IF z_score = NaN THEN "green"     \* every comparison is False
    ELSE LET score == IF inverse THEN -z_score ELSE z_score
             abs_score == IF score < 0 THEN -score ELSE score
         IN IF score > yu_thresholds.red THEN "red"
            ELSE IF score < -yu_thresholds.red THEN "dark_red"
            ELSE IF score > yu_thresholds.orange THEN "orange"
            ELSE IF score < -yu_thresholds.orange THEN "dark_orange"
            ELSE IF abs_score > yu_thresholds.yellow THEN "yellow"
            ELSE "green"

\* usa_stock: calculate_robust_z_score returns (z, bias, status).
usa_calculate_robust_z_score(series) ==
    IF series.rows < min_data_points("usa_stock")
    THEN [z |-> 0, bias |-> "0.0", status |-> 1]
    ELSE LET biasRows == series.rows - (min_data_points("usa_stock") - 1) IN
         IF biasRows < window_long
         THEN [z |-> 0, bias |-> "pct", status |-> 1]
         ELSE [z |-> Clip(series.rawz, clip_bound("usa_stock")),
               bias |-> "pct", status |-> 0]

\* A faulty status text: the inverse branch is green from 1.0 on.
get_status_text_green_at_one(z, inverse) ==
    LET th == [extreme |-> 22, high |-> 12, low |-> -10] IN
    IF ~inverse
    THEN IF z > th.extreme THEN [level |-> "red", msg |-> "panic_overheat"]
         ELSE IF z > th.high THEN [level |-> "orange", msg |-> "risk_building"]
         ELSE IF z < th.low THEN [level |-> "green", msg |-> "low_calm"]
         ELSE [level |-> "yellow", msg |-> "normal"]
    ELSE IF z < -th.extreme THEN [level |-> "red", msg |-> "crash"]
         ELSE IF z < -th.high THEN [level |-> "orange", msg |-> "pullback"]
         ELSE IF z >= 10 THEN [level |-> "green", msg |-> "strong_trend"]
         ELSE [level |-> "yellow", msg |-> "normal"]

\* usa_stock: get_status_text(z, inverse).
get_status_text(z, inverse) ==
    LET th == [extreme |-> 22, high |-> 12, low |-> -10] IN
    IF ~inverse
    THEN IF z > th.extreme THEN [level |-> "red", msg |-> "panic_overheat"]
         ELSE IF z > th.high THEN [level |-> "orange", msg |-> "risk_building"]
         ELSE IF z < th.low THEN [level |-> "green", msg |-> "low_calm"]
         ELSE [level |-> "yellow", msg |-> "normal"]
    ELSE IF z < -th.extreme THEN [level |-> "red", msg |-> "crash"]
         ELSE IF z < -th.high THEN [level |-> "orange", msg |-> "pullback"]
         ELSE IF z > 10 THEN [level |-> "green", msg |-> "strong_trend"]
         ELSE [level |-> "yellow", msg |-> "normal"]

-----------------------------------------------------------------------------
(* Result dicts.  A dict is a function from its keys; values are tokens. *)

\* The dict fetch_and_analyze returns after scoring.
scored_entry(v, name, display_ticker, sc, cl) ==
    IF v \in EconVariants
    THEN [name |-> name, ticker |-> display_ticker, current |-> "price",
          bias |-> sc.bias, z |-> sc.z, level |-> cl.level, msg |-> cl.msg,
          rationale |-> "rationale"]
    ELSE [name |-> name, value |-> "price", bias |-> sc.bias, z |-> sc.z,
          level |-> cl.level, text |-> cl.msg, rationale |-> "rationale",
          ticker |-> display_ticker]

\* The dict of fetch_and_analyze's except branch.
error_entry(v, name) ==
    CASE v \in EconVariants ->
           [name |-> name, ticker |-> "Error", current |-> "-", bias |-> "-",
            z |-> 0, level |-> "gray", msg |-> "Error", rationale |-> "error"]
      [] v = "china_stock" ->
           [name |-> name, value |-> "0", bias |-> "0", z |-> 0,
            level |-> "gray", text |-> "Error", rationale |-> "error"]
      [] OTHER ->   \* japan_stock
           [name |-> name, value |-> "0", level |-> "gray", text |-> "Error",
            rationale |-> "error"]

\* The literal dict appended by the except branch of a try block in
\* get_japan_indicators / get_us_indicators.
fallback_dict(v, failname) ==
    IF v \in EconVariants
    THEN [name |-> failname, level |-> "gray", msg |-> "Error",
          rationale |-> "error"]
    ELSE [name |-> failname, value |-> "0", level |-> "gray", text |-> "Error"]

\* Keys of a fully scored dict of the variant.
FullKeys(v) ==
    IF v \in EconVariants
    THEN {"name", "ticker", "current", "bias", "z", "level", "msg", "rationale"}
    ELSE IF v \in StockVariants
         THEN {"name", "value", "bias", "z", "level", "text", "rationale",
               "ticker"}
         ELSE {"name", "value", "bias", "z", "level", "text", "desc",
               "risk_rule", "ticker"}

-----------------------------------------------------------------------------
(* Indicator configuration: the blocks of get_*_indicators, in program order.
   Names are ASCII renderings of the source's display names.  kind:
     single  fetch_and_analyze(ticker=a, fallback_ticker=b)   (b = "" if none)
     ratio   fetch_and_analyze(is_ratio, ratio_num=a, ratio_den=b)
     ext2    try: fetch a, fetch b, align, combine, external_series
     ext1    try: fetch a, derive, external_series
     tnx     us_econ: ^TNX as external series, else TLT
     bsingle usa_stock: extract a (else b), analyze_indicator
     bpair   usa_stock: extract a and b, align, analyze_indicator if both *)

Blk(kind, dim, name, failname, a, b, inverse) ==
    [kind |-> kind, dim |-> dim, name |-> name, failname |-> failname,
     a |-> a, b |-> b, inverse |-> inverse]

Config(v) ==
    CASE v = "china_econ" -> <<
           Blk("ratio",  "E", "Xiaofei jiangji (PDD/BABA)", "", "PDD", "BABA", FALSE),
           Blk("single", "S", "Hexin zichan (Hushen300)", "", "ASHR", "FXI", TRUE),
           Blk("single", "S", "Dichan bankuai", "", "CHIR", "2202.HK", TRUE),
           Blk("single", "S", "Huilv xinxin (USDCNY)", "", "USDCNY=X", "CNH=X", FALSE),
           Blk("single", "P", "Gongye xuqiu (Tong)", "", "HG=F", "COPX", TRUE),
           Blk("ratio",  "T", "Keji xiangdui qiangruo", "", "CQQQ", "SPY", TRUE) >>
      [] v = "japan_econ" -> <<
           Blk("ext2",   "E", "Shuru tongzhang (Pain Index)", "Shuru tongzhang",
               "CL=F", "USDJPY=X", FALSE),
           Blk("single", "E", "Tongsuo xintai (Uniqlo)", "", "9983.T", "FRCOY", FALSE),
           Blk("single", "S", "YCC boyi (MUFG)", "", "8306.T", "MUFG", FALSE),
           Blk("single", "S", "Quanqiu Capex (Fanuc)", "", "6954.T", "FANUY", TRUE),
           Blk("single", "P", "Huilv fengxian (USDJPY)", "", "USDJPY=X", "", FALSE),
           Blk("single", "P", "Diyuan fengxian (MHI)", "", "7011.T", "MHVYf", FALSE),
           Blk("single", "T", "AI zhouqi (TEL)", "", "8035.T", "TOELY", TRUE) >>
      [] v = "us_econ" -> <<
           Blk("ratio",  "E", "Shuaitui jiaoyi (XLY/XLP)", "", "XLY", "XLP", TRUE),
           Blk("single", "E", "Konghuang zhishu (VIX)", "", "^VIX", "VIXY", FALSE),
           Blk("single", "S", "Xinyong shichang (HYG)", "", "HYG", "JNK", TRUE),
           Blk("ext2",   "S", "Shouyilv quxian (10Y-2Y)", "Shouyilv quxian",
               "^TNX", "^FVX", TRUE),
           Blk("tnx",    "P", "Meizhai shouyilv (10Y)", "Meizhai shouyilv daili (TLT)",
               "^TNX", "TLT", FALSE),
           Blk("single", "P", "Meiyuan liudongxing (DXY)", "", "DX-Y.NYB", "UUP", FALSE),
           Blk("single", "T", "AI yinqing (SMH)", "", "SMH", "NVDA", TRUE),
           Blk("single", "T", "Liudongxing tanzhen (BTC)", "", "BTC-USD", "", TRUE) >>
      [] v = "china_stock" -> <<
           Blk("ratio",  "E", "Fengxian pianhao (KWEB/FXI)", "", "KWEB", "FXI", TRUE),
           Blk("single", "E", "Dapan qingxu (FXI)", "", "FXI", "MCHI", TRUE),
           Blk("single", "S", "Dichan bankuai (CHIR)", "", "CHIR", "", TRUE),
           Blk("single", "S", "Neixu xiaofei (CHIQ)", "", "CHIQ", "", TRUE),
           Blk("single", "P", "Huilv yali (USDCNY)", "", "USDCNY=X", "CNH=X", FALSE),
           Blk("single", "P", "Gongye xuqiu (Tong)", "", "HG=F", "COPX", TRUE),
           Blk("ratio",  "T", "Keji xiangdui qiangruo (CN/US)", "", "CQQQ", "SPY", TRUE),
           Blk("single", "T", "Xin nengyuan (KGRN)", "", "KGRN", "", TRUE) >>
      [] v = "japan_stock" -> <<
           Blk("ext1",   "E", "Konghuang zhishu (N225 Vol)", "Konghuang zhishu",
               "^N225", "", FALSE),
           Blk("ext2",   "E", "Jiating tongku zhishu (Oil*Yen)", "Tongku zhishu",
               "CL=F", "USDJPY=X", FALSE),
           Blk("single", "S", "Tongzhang yuqi (Dongzheng REITs)", "", "1343.T", "TREIT", TRUE),
           Blk("single", "S", "Jiaxi yazhu (MUFG)", "", "8306.T", "MUFG", FALSE),
           Blk("single", "P", "Huilv fengxian (USDJPY)", "", "USDJPY=X", "", FALSE),
           Blk("single", "P", "Waizi fengxiang (Mitsubishi Corp)", "", "8058.T", "8031.T", TRUE),
           Blk("single", "T", "AI/bandaoti (TEL)", "", "8035.T", "", TRUE),
           Blk("single", "T", "Gongye jiqiren (Fanuc)", "", "6954.T", "", TRUE) >>
      [] OTHER -> <<   \* usa_stock
           Blk("bsingle", "E", "Konghuang zhishu (VIX)", "", "^VIX", "VIXY", FALSE),
           Blk("bpair",   "E", "Tanlan/fangyu bi (XLY/XLP)", "", "XLY", "XLP", TRUE),
           Blk("bpair",   "S", "Shichang guangdu (RSP/SPY)", "", "RSP", "SPY", TRUE),
           Blk("bsingle", "S", "Xinyong dizuo (HYG)", "", "HYG", "JNK", TRUE),
           Blk("bpair",   "P", "Shouyilv quxian (10Y-3M)", "", "^TNX", "^IRX", TRUE),
           Blk("bsingle", "P", "Bianji liudongxing (BTC)", "", "BTC-USD", "", TRUE),
           Blk("bpair",   "T", "Keji yongjidu (QQQ/SPY)", "", "QQQ", "SPY", FALSE),
           Blk("bsingle", "T", "AI yinqing (SMH)", "", "SMH", "", TRUE) >>

NBlocks(v) == Len(Config(v))

\* Number of indicators configured for a dimension.
Configured(v, dim) ==
    Cardinality({i \in 1..NBlocks(v) : Config(v)[i].dim = dim})

-----------------------------------------------------------------------------
(* fetch_and_analyze and the indicator blocks *)

Min(a, b) == IF a < b THEN a ELSE b

\* Lengths align_time_series can give for inputs of n and d rows: the union
\* of the dates from the later first observation on.
AlignedRows(n, d) == {r \in PipeRows : r >= Min(n, d) /\ r <= n + d}

\* History record of one indicator block.
Trace(primary_rows, fb_fetched, scored, sym, rows, appended) ==
    [primary_rows |-> primary_rows, fb_fetched |-> fb_fetched,
     scored |-> scored, scored_sym |-> sym, scored_rows |-> rows,
     appended |-> appended]

NoTrace == Trace(0, FALSE, FALSE, "", 0, 0)

\* The condition guarding the fallback fetch.
use_fallback(v, rows, fallback_ticker) ==
    (rows = 0 \/ rows < min_data_points(v)) /\ fallback_ticker # ""

\* The condition of the raise after the single-asset fetches.
source_failed(v, rows) ==
    IF v = "china_econ" THEN rows = 0 \/ rows < min_data_points(v)
    ELSE rows = 0

\* The scoring tail of fetch_and_analyze: scorer, classifier, result dict.
score_series(v, name, display_ticker, series, inverse) ==
    LET sc == calculate_robust_z_score(v, series, inverse) IN
    scored_entry(v, name, display_ticker, sc, classify(v, sc.z))

\* fetch_and_analyze(ticker=, fallback_ticker=)
fa_single(v, name, ticker, fallback_ticker, inverse, inp) ==
    LET p       == Fetched(v, inp.b1)
        fb      == use_fallback(v, p, fallback_ticker)
        rows    == IF fb THEN Fetched(v, inp.b2) ELSE p
        display == IF fb THEN fallback_ticker ELSE ticker
    IN IF source_failed(v, rows)
       THEN [out |-> <<error_entry(v, name)>>,
             tr  |-> Trace(p, fb, FALSE, display, rows, 1)]
       ELSE [out |-> <<score_series(v, name, display,
                                    [rows |-> rows, rawz |-> inp.rawz], inverse)>>,
             tr  |-> Trace(p, fb, TRUE, display, rows, 1)]

\* fetch_and_analyze(is_ratio=True, ratio_num=, ratio_den=)
fa_ratio(v, name, ratio_num, ratio_den, inverse, inp) ==
    LET n == Fetched(v, inp.b1)
        d == Fetched(v, inp.b2)
        display == ratio_num \o "/" \o ratio_den
    IN IF n = 0 \/ d = 0 \/ inp.arows < min_data_points(v)
       THEN [out |-> <<error_entry(v, name)>>,
             tr  |-> Trace(n, FALSE, FALSE, display,
                           IF n = 0 \/ d = 0 THEN 0 ELSE inp.arows, 1)]
       ELSE [out |-> <<score_series(v, name, display,
                                    [rows |-> inp.arows, rawz |-> inp.rawz],
                                    inverse)>>,
             tr  |-> Trace(n, FALSE, TRUE, display, inp.arows, 1)]

\* fetch_and_analyze(external_series=): series.iloc[-1] raises on an empty
\* series, which the except branch turns into the error dict.
fa_external(v, name, rows, inverse, inp) ==
    IF rows = 0
    THEN [out |-> <<error_entry(v, name)>>,
          tr  |-> Trace(0, FALSE, FALSE, "Composite", 0, 1)]
    ELSE [out |-> <<score_series(v, name, "Composite",
                                 [rows |-> rows, rawz |-> inp.rawz], inverse)>>,
          tr  |-> Trace(rows, FALSE, TRUE, "Composite", rows, 1)]

\* try: two fetches, align, combine, fetch_and_analyze(external_series=)
\* except: append the literal dict
blk_ext2(v, c, inp) ==
    LET a == Fetched(v, inp.b1)
        b == Fetched(v, inp.b2)
    IN IF a # 0 /\ b # 0
       THEN fa_external(v, c.name, inp.arows, c.inverse, inp)
       ELSE [out |-> <<fallback_dict(v, c.failname)>>,
             tr  |-> Trace(a, FALSE, FALSE, "", 0, 1)]

\* japan_stock: try: fetch ^N225, rolling volatility, external_series
blk_ext1(v, c, inp) ==
    LET a == Fetched(v, inp.b1) IN
    IF a # 0
    THEN fa_external(v, c.name, a, c.inverse, inp)
    ELSE [out |-> <<fallback_dict(v, c.failname)>>,
          tr  |-> Trace(a, FALSE, FALSE, "", 0, 1)]

\* A faulty Treasury block: nothing is appended when ^TNX is empty.
blk_tnx_no_proxy(v, c, inp) ==
    LET tnx == Fetched(v, inp.b1) IN
    IF tnx # 0
    THEN fa_external(v, c.name, tnx, FALSE, inp)
    ELSE [out |-> <<>>, tr |-> Trace(0, FALSE, FALSE, "", 0, 0)]

\* us_econ: ^TNX as external series, else the TLT proxy with inverse logic
blk_tnx(v, c, inp) ==
    LET tnx == Fetched(v, inp.b1) IN
    IF tnx # 0
    THEN fa_external(v, c.name, tnx, FALSE, inp)
    ELSE fa_single(v, c.failname, c.b, "", TRUE,
                   [inp EXCEPT !.b1 = inp.b2])

-----------------------------------------------------------------------------
(* usa_stock: batch download, extract_series, analyze_indicator *)

\* extract_series: an empty series when the batch failed or lacks the ticker.
extract_series(batch, rows) == IF batch = "ok" THEN rows ELSE 0

usa_error_entry(name) ==
    [name |-> name, value |-> "0", level |-> "gray", text |-> "Error",
     desc |-> "desc", risk_rule |-> "data_error"]

\* analyze_indicator(name, desc, risk_rule, series, inverse)
analyze_indicator(name, series, inverse) ==
    IF series.rows = 0 THEN usa_error_entry(name)
    ELSE LET sc == usa_calculate_robust_z_score(series) IN
         IF sc.status = 1
         THEN [name |-> name, value |-> "price", bias |-> sc.bias, z |-> 0,
               level |-> "gray", text |-> "insufficient", desc |-> "desc",
               risk_rule |-> "rule"]
         ELSE LET st == get_status_text(sc.z, inverse) IN
              [name |-> name, value |-> "price", bias |-> sc.bias, z |-> sc.z,
               level |-> st.level, text |-> st.msg, desc |-> "desc",
               risk_rule |-> "rule", ticker |-> ""]

\* s = extract(a); if s.empty: s = extract(b); analyze_indicator(series=s)
blk_bsingle(c, batch, inp) ==
    LET p    == extract_series(batch, inp.r1)
        fb   == p = 0 /\ c.b # ""
        rows == IF fb THEN extract_series(batch, inp.r2) ELSE p
    IN [out |-> <<analyze_indicator(c.name, [rows |-> rows, rawz |-> inp.rawz],
                                    c.inverse)>>,
        tr  |-> Trace(p, fb, rows # 0, IF fb THEN c.b ELSE c.a, rows, 1),
        spy |-> 0]

\* two extracted series; the indicator is appended only if both are non-empty.
\* r2 is the second series as the block sees it (for QQQ/SPY the variable
\* s_spy left by the RSP/SPY block).
blk_bpair(c, r1, r2, inp) ==
    IF r1 # 0 /\ r2 # 0
    THEN [out |-> <<analyze_indicator(c.name,
                       [rows |-> inp.arows, rawz |-> inp.rawz], c.inverse)>>,
          tr  |-> Trace(r1, FALSE, TRUE, c.a \o "/" \o c.b, inp.arows, 1),
          spy |-> inp.arows]
    ELSE [out |-> <<>>,
          tr  |-> Trace(r1, FALSE, FALSE, "", 0, 0),
          spy |-> r2]

-----------------------------------------------------------------------------
(* CompositeRiskEngine: generate_report / generate_html_report *)

Levels == {"red", "orange", "yellow", "green", "gray"}

\* The dimensions in dict insertion order, flattened.
Flatten(inds) == inds["E"] \o inds["S"] \o inds["P"] \o inds["T"]

\* A faulty severity table: red weighs 12.
score_map_red_12(level) ==
    CASE level = "red" -> 12
      [] level = "orange" -> 6
      [] level = "yellow" -> 3
      [] level = "gray" -> 5
      [] OTHER -> 0

\* score_map.get(level, 0)
score_map(level) ==
    CASE level = "red" -> 10
      [] level = "orange" -> 6
      [] level = "yellow" -> 3
      [] level = "green" -> 0
      [] level = "gray" -> 5
      [] OTHER -> 0

\* weights, in hundredths
weights(v) ==
    CASE v = "china_econ" -> [E |-> 20, S |-> 35, P |-> 30, T |-> 15]
      [] v = "japan_econ" -> [E |-> 20, S |-> 30, P |-> 35, T |-> 15]
      [] OTHER            -> [E |-> 20, S |-> 30, P |-> 30, T |-> 20]

\* Weighted scores are integers in units of 1 / ScoreUnit:
\* hundredths of weight times sixths of an average over 1, 2 or 3 items.
ScoreUnit == 600

RECURSIVE SumSeverity(_)
SumSeverity(items) ==
    IF items = <<>> THEN 0
    ELSE score_map(Head(items).level) + SumSeverity(Tail(items))

\* dim_score of every dimension
DimSums(inds) == [d \in DimSet |-> SumSeverity(inds[d])]

\* total_score += (dim_score / len(items)) * weights[dim], over all dimensions
total_score(v, inds) ==
    LET term(d) == (SumSeverity(inds[d]) * (6 \div Len(inds[d]))) * weights(v)[d]
    IN term("E") + term("S") + term("P") + term("T")

\* The sums of binary floating point differ from the exact value by one unit
\* in the last place for these dimension sums of us_econ, where the exact
\* value is 3 or 6; everywhere else of the three variants the comparisons
\* with 3 and 6 agree with exact arithmetic.
FloatExcessSums ==
    { <<12, 0, 8, 6>>, <<12, 3, 5, 6>>, <<12, 5, 3, 6>>, <<12, 8, 0, 6>>,
      <<12, 8, 16, 12>>, <<12, 13, 11, 12>>, <<12, 13, 13, 9>> }

float_excess(v, inds) ==
    LET ds == DimSums(inds) IN
    IF v = "us_econ" /\ <<ds["E"], ds["S"], ds["P"], ds["T"]>> \in FloatExcessSums
    THEN 1 ELSE 0

\* Names that contain the substring a status slot is keyed on.
TrackedNames(v) ==
    CASE v = "china_econ" ->
           [ASHR   |-> {"Hexin zichan (Hushen300)"},
            FX     |-> {"Huilv xinxin (USDCNY)"},
            Copper |-> {"Gongye xuqiu (Tong)"}]
      [] v = "japan_econ" ->
           [Pain |-> {"Shuru tongzhang (Pain Index)"},
            Yen  |-> {"Huilv fengxian (USDJPY)"},
            Bond |-> {"YCC boyi (MUFG)"}]
      [] v = "us_econ" ->
           [VIX    |-> {"Konghuang zhishu (VIX)"},
            Credit |-> {"Xinyong shichang (HYG)"},
            Rates  |-> {"Meizhai shouyilv (10Y)", "Meizhai shouyilv daili (TLT)"},
            Dollar |-> {"Meiyuan liudongxing (DXY)"}]
      [] v = "china_stock" ->
           [RealEstate |-> {"Dichan bankuai (CHIR)"},
            FX         |-> {"Huilv yali (USDCNY)"},
            Market     |-> {"Dapan qingxu (FXI)"},
            RiskOn     |-> {"Fengxian pianhao (KWEB/FXI)"}]
      [] v = "japan_stock" ->
           [Pain  |-> {"Jiating tongku zhishu (Oil*Yen)", "Tongku zhishu"},
            Bank  |-> {"Jiaxi yazhu (MUFG)"},
            Yen   |-> {"Huilv fengxian (USDJPY)"},
            Reits |-> {"Tongzhang yuqi (Dongzheng REITs)"}]
      [] OTHER ->
           [VIX    |-> {"Konghuang zhishu (VIX)"},
            Credit |-> {"Xinyong dizuo (HYG)"},
            Curve  |-> {"Shouyilv quxian (10Y-3M)"},
            AI     |-> {"AI yinqing (SMH)"}]

\* st / core_status / status_tracker after the loop over all items:
\* slot -> level of the last matching item, "unset" for a missing key.
status_tracker(v, inds) ==
    LET all == Flatten(inds)
        tn  == TrackedNames(v)
        hit(slot) == SelectSeq(all, LAMBDA e : e.name \in tn[slot])
    IN [slot \in DOMAIN tn |->
          IF hit(slot) = <<>> THEN "unset"
          ELSE hit(slot)[Len(hit(slot))].level]

\* Faulty veto predicates: the early warning of us_econ needs a red VIX.
veto_rules_red_vix(v, st) ==
    CASE v = "china_econ" ->
           << <<"FX red", st.FX = "red">>,
              <<"ASHR red", st.ASHR = "red">>,
              <<"systemic resonance",
                Cardinality({k \in DOMAIN st : st[k] = "orange"}) >= 2>> >>
      [] v = "japan_econ" ->
           << <<"Yen red", st.Yen = "red">>,
              <<"Pain and YCC red", st.Pain = "red" /\ st.Bond = "red">> >>
      [] v = "us_econ" ->
           << <<"liquidity shock", st.VIX = "red" /\ st.Credit = "red">>,
              <<"tightening storm", st.Rates = "red" /\ st.Dollar = "red">>,
              <<"early warning", st.VIX = "red"
                                 /\ st.Credit \in {"red", "orange"}>> >>
      [] v = "china_stock" ->
           << <<"stocks and FX", st.FX = "red" /\ st.Market = "red">>,
              <<"balance sheet recession",
                st.RealEstate = "red" /\ st.RiskOn = "red">> >>
      [] v = "japan_stock" ->
           << <<"Yen red", st.Yen = "red">>,
              <<"stagflation and hikes", st.Pain = "red" /\ st.Bank = "red">>,
              <<"deflation returns", st.Reits = "red">> >>
      [] OTHER ->
           << <<"liquidity crisis", st.VIX = "red" /\ st.Credit = "red">>,
              <<"recession trade", st.Curve = "red" /\ st.AI = "red">> >>

\* The veto predicates, in program order: <<message, condition>>.
veto_rules(v, st) ==
    CASE v = "china_econ" ->
           << <<"FX red", st.FX = "red">>,
              <<"ASHR red", st.ASHR = "red">>,
              <<"systemic resonance",
                Cardinality({k \in DOMAIN st : st[k] = "orange"}) >= 2>> >>
      [] v = "japan_econ" ->
           << <<"Yen red", st.Yen = "red">>,
              <<"Pain and YCC red", st.Pain = "red" /\ st.Bond = "red">> >>
      [] v = "us_econ" ->
           << <<"liquidity shock", st.VIX = "red" /\ st.Credit = "red">>,
              <<"tightening storm", st.Rates = "red" /\ st.Dollar = "red">>,
              <<"early warning", st.VIX \in {"red", "orange"}
                                 /\ st.Credit \in {"red", "orange"}>> >>
      [] v = "china_stock" ->
           << <<"stocks and FX", st.FX = "red" /\ st.Market = "red">>,
              <<"balance sheet recession",
                st.RealEstate = "red" /\ st.RiskOn = "red">> >>
      [] v = "japan_stock" ->
           << <<"Yen red", st.Yen = "red">>,
              <<"stagflation and hikes", st.Pain = "red" /\ st.Bank = "red">>,
              <<"deflation returns", st.Reits = "red">> >>
      [] OTHER ->
           << <<"liquidity crisis", st.VIX = "red" /\ st.Credit = "red">>,
              <<"recession trade", st.Curve = "red" /\ st.AI = "red">> >>

\* A faulty veto block: an elif chain, only the first true predicate reports.
rule_appends_first_only(v, i, cond, sofar) == cond /\ sofar = <<>>

\* Whether rule i appends its message, given the messages appended so far.
\* us_econ appends the early warning only "if not veto_msgs".
rule_appends(v, i, cond, sofar) ==
    cond /\ (v = "us_econ" /\ i = 3 => sofar = <<>>)

RECURSIVE collect_veto(_, _, _, _)
collect_veto(v, rules, i, sofar) ==
    IF i > Len(rules) THEN sofar
    ELSE collect_veto(v, rules, i + 1,
             IF rule_appends(v, i, rules[i][2], sofar)
             THEN Append(sofar, rules[i][1]) ELSE sofar)

\* veto_msgs after the veto block
veto_messages(v, inds) ==
    collect_veto(v, veto_rules(v, status_tracker(v, inds)), 1, <<>>)

\* A faulty banding: the score decides alone, a veto is ignored.
final_risk_by_score(veto_triggered, score, excess) ==
    IF score > 6 * ScoreUnit \/ (score = 6 * ScoreUnit /\ excess > 0)
    THEN "orange"
    ELSE IF score > 3 * ScoreUnit \/ (score = 3 * ScoreUnit /\ excess > 0)
         THEN "yellow"
         ELSE "green"

\* The if / elif chain that bands the run of an econ variant.
final_risk(veto_triggered, score, excess) ==
    IF veto_triggered THEN "red"
    ELSE IF score > 6 * ScoreUnit \/ (score = 6 * ScoreUnit /\ excess > 0)
         THEN "orange"
         ELSE IF score > 3 * ScoreUnit \/ (score = 3 * ScoreUnit /\ excess > 0)
              THEN "yellow"
              ELSE "green"

\* A faulty status chain: a red market is an opportunity unless FX is red.
overall_status_any_fx(v, st, msgs) ==
    IF msgs # <<>> THEN "system_failure"
    ELSE CASE v = "china_stock" ->
                IF st.FX = "red" \/ st.RealEstate = "red" THEN "structural_stress"
                ELSE IF st.Market = "red" THEN "oversold_opportunity"
                     ELSE "stable"
           [] v = "japan_stock" ->
                IF st.Pain = "red" \/ st.Bank = "red" THEN "high_stress"
                ELSE "stable"
           [] OTHER ->
                IF st.Credit = "red" \/ st.Curve = "red" THEN "structural_stress"
                ELSE "stable"

\* overall_status of the stock variants
overall_status(v, st, msgs) ==
    IF msgs # <<>> THEN "system_failure"
    ELSE CASE v = "china_stock" ->
                IF st.FX = "red" \/ st.RealEstate = "red" THEN "structural_stress"
                ELSE IF st.Market = "red" /\ st.FX \in {"green", "yellow"}
                     THEN "oversold_opportunity"
                     ELSE "stable"
           [] v = "japan_stock" ->
                IF st.Pain = "red" \/ st.Bank = "red" THEN "high_stress"
                ELSE "stable"
           [] OTHER ->
                IF st.Credit = "red" \/ st.Curve = "red" THEN "structural_stress"
                ELSE "stable"

\* Keys read with item[...] while looping over the items.
RequiredKeys(v) ==
    CASE v \in EconVariants -> {"level", "name", "bias", "msg", "rationale"}
      [] v \in StockVariants -> {"name", "level", "text", "rationale"}
      [] OTHER -> {"name", "level", "desc", "risk_rule", "text"}

\* The first failure of the loop over the items, "" if it completes.
loop_error(v, inds) ==
    LET all == Flatten(inds) IN
    IF \E i \in 1..Len(all) : ~(RequiredKeys(v) \subseteq DOMAIN all[i])
    THEN "KeyError"
    ELSE IF v \in EconVariants /\ \E d \in DimSet : inds[d] = <<>>
         THEN "ZeroDivisionError"
         ELSE ""

NoReport ==
    [status |-> "none", error |-> "", total_score |-> -1, excess |-> 0,
     final_risk |-> "", veto_reached |-> FALSE, veto_msgs |-> <<>>]

\* generate_report of the econ variants: the scoring loop, then the veto
\* block, then the banding.  An exception leaves through __main__'s except.
generate_report(v, inds) ==
    IF loop_error(v, inds) # ""
    THEN [NoReport EXCEPT !.status = "aborted", !.error = loop_error(v, inds)]
    ELSE LET msgs == veto_messages(v, inds)
             sc   == total_score(v, inds)
             ex   == float_excess(v, inds)
         IN [status |-> "done", error |-> "", total_score |-> sc, excess |-> ex,
             final_risk |-> final_risk(msgs # <<>>, sc, ex),
             veto_reached |-> TRUE, veto_msgs |-> msgs]

\* generate_html_report of the stock variants: the status loop and the veto
\* block come first, the rendering loop last.
generate_html_report(v, inds) ==
    LET msgs == veto_messages(v, inds)
        st   == status_tracker(v, inds)
    IN IF loop_error(v, inds) # ""
       THEN [NoReport EXCEPT !.status = "aborted", !.error = loop_error(v, inds),
                             !.veto_reached = TRUE, !.veto_msgs = msgs]
       ELSE [status |-> "done", error |-> "", total_score |-> -1, excess |-> 0,
             final_risk |-> overall_status(v, st, msgs),
             veto_reached |-> TRUE, veto_msgs |-> msgs]

-----------------------------------------------------------------------------
(* A run: get_*_indicators block by block, then the report *)

EmptyIndicators == [d \in DimSet |-> <<>>]

NoFetch == [rows |-> 0, log |-> <<>>, issues |-> 0, raised |-> FALSE]

\* Is the block's indicator one the report's status tracker looks at?
IsTracked(v, c) ==
    \E slot \in DOMAIN TrackedNames(v) :
        c.name \in TrackedNames(v)[slot] \/ c.failname \in TrackedNames(v)[slot]

\* Raw deviations offered to a block.  The "levels" grid gives a tracked
\* indicator every level and the others a safe and a risky one; the raw
\* deviation of an inverse indicator has the opposite sign of its risk.
GridZs(v, c) ==
    IF grid = "run" THEN PipeZs
    ELSE {IF c.inverse THEN -z ELSE z :
            z \in IF IsTracked(v, c) THEN ReportZs ELSE UntrackedZs}

Steady(v, o) == [i \in 1..retries(v) |-> o]

\* Inputs of one block of the fetching variants: the provider's behaviour on
\* the block's two symbols, the aligned length, the raw deviation.  In the
\* "levels" grid both symbols fail or both have a long history.
BlockInputs(v, c, paired) ==
    IF grid = "run"
    THEN [b1 : SteadyBehaviours(v), b2 : SteadyBehaviours(v),
          arows : IF paired THEN PipeRows ELSE {0}, rawz : PipeZs]
    ELSE {[b1 |-> Steady(v, o), b2 |-> Steady(v, o),
           arows |-> IF o = Raise THEN 0 ELSE o, rawz |-> z] :
             o \in {Raise, LongRows}, z \in GridZs(v, c)}

\* Inputs of one block of usa_stock: rows of the two tickers in the batch.
BatchInputs(c, paired) ==
    IF grid = "run"
    THEN [r1 : PipeRows, r2 : PipeRows,
          arows : IF paired THEN PipeRows ELSE {0}, rawz : PipeZs]
    ELSE {[r1 |-> o, r2 |-> o, arows |-> o, rawz |-> z] :
             o \in {0, LongRows}, z \in GridZs("usa_stock", c)}

\* The aligned length is one that the two fetched series can give.
AlignOk(n, d, arows) == (n # 0 /\ d # 0) => arows \in AlignedRows(n, d)

Cur == Config(variant)[step]

\* Append the block's output to its dimension and move to the next block.
Advance(r) ==
    /\ indicators' = [indicators EXCEPT ![Cur.dim] = @ \o r.out]
    /\ last' = [blk |-> step, tr |-> r.tr]
    /\ step' = step + 1
    /\ pc' = IF step = NBlocks(variant) THEN "report" ELSE "collect"
    /\ UNCHANGED <<yu_vars, cc_vars, variant, df_batch, report, f_beh, f_out, grid,
                   args, result>>

Collecting(kind) ==
    /\ pc = "collect"
    /\ variant \in Variants
    /\ step <= NBlocks(variant)
    /\ Cur.kind = kind

AnalyzeSingle ==
    /\ Collecting("single")
    /\ \E inp \in BlockInputs(variant, Cur, FALSE) :
          Advance(fa_single(variant, Cur.name, Cur.a, Cur.b, Cur.inverse, inp))
    /\ UNCHANGED s_spy

AnalyzeRatio ==
    /\ Collecting("ratio")
    /\ \E inp \in BlockInputs(variant, Cur, TRUE) :
          /\ AlignOk(Fetched(variant, inp.b1), Fetched(variant, inp.b2), inp.arows)
          /\ Advance(fa_ratio(variant, Cur.name, Cur.a, Cur.b, Cur.inverse, inp))
    /\ UNCHANGED s_spy

AnalyzeComposite ==
    /\ Collecting("ext2")
    /\ \E inp \in BlockInputs(variant, Cur, TRUE) :
          /\ AlignOk(Fetched(variant, inp.b1), Fetched(variant, inp.b2), inp.arows)
          /\ Advance(blk_ext2(variant, Cur, inp))
    /\ UNCHANGED s_spy

AnalyzeVolatility ==
    /\ Collecting("ext1")
    /\ \E inp \in BlockInputs(variant, Cur, FALSE) : Advance(blk_ext1(variant, Cur, inp))
    /\ UNCHANGED s_spy

AnalyzeTreasury ==
    /\ Collecting("tnx")
    /\ \E inp \in BlockInputs(variant, Cur, FALSE) : Advance(blk_tnx(variant, Cur, inp))
    /\ UNCHANGED s_spy

\* usa_stock: fetch_all_data, one batch download for all tickers
FetchAllData ==
    /\ pc = "collect" /\ variant = "usa_stock" /\ df_batch = "none"
    /\ df_batch' \in {"ok", "failed"}
    /\ UNCHANGED <<yu_vars, cc_vars, variant, pc, step, s_spy, indicators, last, report, f_beh, f_out, grid,
                   args, result>>

AnalyzeBatchSingle ==
    /\ Collecting("bsingle") /\ df_batch # "none"
    /\ \E inp \in BatchInputs(Cur, FALSE) : Advance(blk_bsingle(Cur, df_batch, inp))
    /\ UNCHANGED s_spy

AnalyzeBatchPair ==
    /\ Collecting("bpair") /\ df_batch # "none"
    /\ \E inp \in BatchInputs(Cur, TRUE) :
          LET r1 == extract_series(df_batch, inp.r1)
              r2 == IF Cur.a = "QQQ" THEN s_spy
                    ELSE extract_series(df_batch, inp.r2)
              r  == blk_bpair(Cur, r1, r2, inp)
          IN /\ AlignOk(r1, r2, inp.arows)
             /\ Advance(r)
             /\ s_spy' = IF Cur.b = "SPY" THEN r.spy ELSE s_spy

\* generate_report / generate_html_report on the collected indicators
GenerateReport ==
    /\ pc = "report"
    /\ report' = IF variant \in EconVariants
                 THEN generate_report(variant, indicators)
                 ELSE generate_html_report(variant, indicators)
    /\ pc' = "done"
    /\ UNCHANGED <<yu_vars, cc_vars, variant, step, df_batch, s_spy, indicators, last, f_beh, f_out, grid,
                   args, result>>

\* One call of fetch_data_safe against a provider behaviour
FetchDataSafe ==
    /\ pc = "fetch"
    /\ f_out' = fetch_data_safe(variant, f_beh)
    /\ pc' = "fetched"
    /\ UNCHANGED <<yu_vars, cc_vars, variant, step, df_batch, s_spy, indicators, last, report, f_beh, grid,
                   args, result>>

-----------------------------------------------------------------------------
(* Lone calls of the pure functions *)

NoCall == [fn |-> "none"]

ClassifyVariants == Variants \cup {"us_econ_yu"}

\* Risk deviations in tenths: the thresholds of every variant and their
\* neighbours.
ClassZs ==
    {-45, -23, -22, -21, -20, -16, -15, -13, -12, -11, -10, -9, 0,
     9, 10, 11, 12, 13, 15, 16, 20, 21, 22, 23, 45}

\* The level the variant's classifier gives a direction-adjusted score.
\* usa_stock and us_econ_yu classify the raw score and the direction flag.
level_of_risk(v, risk_z, inverse) ==
    LET raw == IF inverse THEN -risk_z ELSE risk_z IN
    CASE v = "usa_stock" -> get_status_text(raw, inverse).level
      [] v = "us_econ_yu" -> get_status_color(raw, inverse)
      [] OTHER -> classify(v, risk_z).level

ClassifyArgs ==
    [fn : {"classify"}, v : ClassifyVariants, inverse : BOOLEAN,
     z1 : ClassZs, z2 : ClassZs]

Classify ==
    /\ pc = "call" /\ args.fn = "classify"
    /\ result' = [fn |-> "classify",
                  l1 |-> level_of_risk(args.v, args.z1, args.inverse),
                  l2 |-> level_of_risk(args.v, args.z2, args.inverse)]
    /\ pc' = "returned"
    /\ UNCHANGED <<yu_vars, cc_vars, variant, step, df_batch, s_spy, indicators, last, report,
                   f_beh, f_out, grid, args>>

\* Bias and dispersion are integers in units of 1e-10, the epsilon of
\* us_econ_yu; z-scores stay in tenths.
epsilon == 1

\* cur_bias - cur_mean at the evaluation point: 0, 0.5 % and 1 %, both signs
Devs == {-100000000, -50000000, 0, 50000000, 100000000}

\* cur_std at the evaluation point: 0, 1e-10, 1e-4, 0.25 %, 0.5 %, 2 %
Stds == {0, 1, 1000000, 25000000, 50000000, 200000000}

\* Integer quotient rounded towards zero, b > 0.
Quot(a, b) == IF a >= 0 THEN a \div b ELSE -((-a) \div b)

\* if pd.isna(cur_std) or cur_std == 0: z_score = 0
\* else: z_score = (cur_bias - cur_mean) / cur_std        (in tenths)
z_score_of(dev, std) == IF std = 0 THEN 0 ELSE Quot(10 * dev, std)

\* Is the rolling dispersion of the bias defined at the evaluation point?
std_defined(v, rows) ==
    CASE v = "us_econ_yu" -> rows >= window_long
                             /\ rows - ((window_long * 8) \div 10 - 1)
                                  >= (window_long * 8) \div 10
      [] v = "usa_stock" -> rows >= min_data_points(v)
                            /\ rows - (min_data_points(v) - 1) >= window_long
      [] OTHER -> rows >= scorer_min_len(v)
                  /\ rows - (trend_min_periods(v) - 1) >= disp_min_periods(v)

\* us_econ_yu: calculate_bias_z_score(series, window): (z_score, bias)
calculate_bias_z_score(series) ==
    IF series.rows = 0 \/ series.rows < window_long
    THEN [z |-> None, bias |-> "None"]
    ELSE IF ~std_defined("us_econ_yu", series.rows)
         THEN [z |-> NaN, bias |-> "pct"]
         ELSE [z |-> Quot(10 * series.dev, series.std + epsilon),
               bias |-> "pct"]

\* The number the variant divides by, 0 if it does not divide.
divisor_of(v, series) ==
    IF ~std_defined(v, series.rows) THEN 0
    ELSE IF v = "us_econ_yu" THEN series.std + epsilon
    ELSE series.std

\* The z-score and the bias the variant reports for a series and a flag.
reported_score(v, series, inverse) ==
    LET s2 == [rows |-> series.rows,
               rawz |-> z_score_of(series.dev, series.std)] IN
    CASE v = "us_econ_yu" ->
           calculate_bias_z_score(series)
      [] v = "usa_stock" ->
           \* if pd.isna(cur_std) or cur_std == 0: return 0, cur_val, 1
           LET sc == IF std_defined(v, series.rows) /\ series.std = 0
                     THEN [z |-> 0, bias |-> "pct", status |-> 1]
                     ELSE usa_calculate_robust_z_score(s2)
           IN [z |-> sc.z, bias |-> sc.bias]
      [] OTHER -> calculate_robust_z_score(v, s2, inverse)

ScoreArgs ==
    [fn : {"score"}, v : ClassifyVariants, rows : Rows, dev : Devs, std : Stds]

Score ==
    /\ pc = "call" /\ args.fn = "score"
    /\ LET series == [rows |-> args.rows, dev |-> args.dev, std |-> args.std]
       IN result' =
            [fn |-> "score",
             direct  |-> reported_score(args.v, series, FALSE),
             inverse |-> reported_score(args.v, series, TRUE),
             divisor |-> divisor_of(args.v, series),
             unclipped |->
               IF divisor_of(args.v, series) = 0 THEN 0
               ELSE Quot(10 * args.dev, divisor_of(args.v, series))]
    /\ pc' = "returned"
    /\ UNCHANGED <<yu_vars, cc_vars, variant, step, df_batch, s_spy, indicators, last, report,
                   f_beh, f_out, grid, args>>

\* A series on the calendar 1..MaxDate is the set of its observation dates;
\* the value observed on a date is named by the date.
MaxDate == 4
Calendar == 1..MaxDate

MaxOf(S) == CHOOSE x \in S : \A y \in S : y <= x
MinOf(S) == CHOOSE x \in S : \A y \in S : x <= y

\* reindex(all_dates).ffill() at date t: the latest observation at or before
\* t, 0 for NaN.
ffill(S, t) ==
    IF {d \in S : d <= t} = {} THEN 0 ELSE MaxOf({d \in S : d <= t})

\* align_time_series(series1, series2): the two aligned series, each a
\* function from its dates to the observation it holds there.
align_time_series(v, series1, series2) ==
    IF v = "us_econ_yu"
    THEN \* pd.DataFrame({'s1': s1, 's2': s2}).dropna()
         LET both == IF series1 = {} \/ series2 = {} THEN {}
                     ELSE series1 \cap series2
         IN [s1 |-> [t \in both |-> t], s2 |-> [t \in both |-> t]]
    ELSE LET all_dates == series1 \cup series2
             valid == {t \in all_dates :
                         ffill(series1, t) # 0 /\ ffill(series2, t) # 0}
         IN [s1 |-> [t \in valid |-> ffill(series1, t)],
             s2 |-> [t \in valid |-> ffill(series2, t)]]

AlignArgs ==
    [fn : {"align"}, v : ClassifyVariants,
     a : SUBSET Calendar, b : SUBSET Calendar]

Align ==
    /\ pc = "call" /\ args.fn = "align"
    /\ result' = [fn |-> "align",
                  ab |-> align_time_series(args.v, args.a, args.b),
                  ba |-> align_time_series(args.v, args.b, args.a)]
    /\ pc' = "returned"
    /\ UNCHANGED <<yu_vars, cc_vars, variant, step, df_batch, s_spy, indicators, last, report,
                   f_beh, f_out, grid, args>>

\* Closing prices a provider frame can hold: negative, zero, positive.
PriceValues == {-1, 0, 1, 2}

\* The prices of the series handed on from a provider frame with the given
\* set of closing prices: extract_series of usa_stock drops the zeros
\* (s.replace(0, np.nan).dropna()), fetch_data_safe returns df['Close'].
returned_prices(v, close) ==
    IF v = "usa_stock" THEN close \ {0} ELSE close

PriceArgs ==
    [fn : {"prices"}, v : ClassifyVariants, close : (SUBSET PriceValues) \ {{}}]

ReturnPrices ==
    /\ pc = "call" /\ args.fn = "prices"
    /\ result' = [fn |-> "prices", prices |-> returned_prices(args.v, args.close)]
    /\ pc' = "returned"
    /\ UNCHANGED <<yu_vars, cc_vars, variant, step, df_batch, s_spy, indicators, last, report,
                   f_beh, f_out, grid, args>>

\* An aligned series is sampled on the dates 1..NSamples and holds its last
\* sampled value in between; ratios are kept in hundredths.
NSamples == 2

\* Scripts whose fetch_and_analyze has the is_ratio mode.
RatioVariants == {"china_econ", "us_econ", "china_stock"}

\* A faulty synthesis: every date is divided by the first denominator.
ratio_by_first(s_num_aligned, s_den_aligned) ==
    [t \in DOMAIN s_num_aligned |->
       (100 * s_num_aligned[t]) \div s_den_aligned[1]]

\* series = s_num_aligned / s_den_aligned
ratio_series(s_num_aligned, s_den_aligned) ==
    [t \in DOMAIN s_num_aligned |->
       (100 * s_num_aligned[t]) \div s_den_aligned[t]]

IsConstant(series) == \A t, u \in DOMAIN series : series[t] = series[u]

\* cur_bias - cur_mean and cur_std of a series: both 0 when the series is
\* constant (series / rolling_mean - 1 is 0 on every date), else the
\* statistics its values give.
bias_stats(series, rows, dev, std) ==
    IF IsConstant(series) THEN [rows |-> rows, dev |-> 0, std |-> 0]
    ELSE [rows |-> rows, dev |-> dev, std |-> std]

RatioArgs ==
    [fn : {"ratio"}, v : RatioVariants, rows : {250, 400, 600},
     a : [1..NSamples -> {1, 3}], b : [1..NSamples -> {2, 3, 6}],
     dev : {0, 50000000}, std : {0, 25000000}]

\* The is_ratio synthesis followed by the scorer, under both flags.
Synthesize ==
    /\ pc = "call" /\ args.fn = "ratio"
    /\ LET series == ratio_series(args.b, args.a)
           st == bias_stats(series, args.rows, args.dev, args.std)
       IN result' = [fn |-> "ratio", series |-> series,
                     direct  |-> reported_score(args.v, st, FALSE),
                     inverse |-> reported_score(args.v, st, TRUE)]
    /\ pc' = "returned"
    /\ UNCHANGED <<yu_vars, cc_vars, variant, step, df_batch, s_spy, indicators, last, report,
                   f_beh, f_out, grid, args>>

StatusArgs == [fn : {"status"}, z : ClassZs]

\* usa_stock: get_status_text on a raw score with the inverse flag and on
\* the negated score without it.
StatusText ==
    /\ pc = "call" /\ args.fn = "status"
    /\ result' = [fn |-> "status",
                  inverse |-> get_status_text(args.z, TRUE).level,
                  negated |-> get_status_text(-args.z, FALSE).level]
    /\ pc' = "returned"
    /\ UNCHANGED <<yu_vars, cc_vars, variant, step, df_batch, s_spy, indicators, last, report,
                   f_beh, f_out, grid, args>>

-----------------------------------------------------------------------------
(* us_econ_yu: the fetches of whole runs through the lru_cache *)

\* The fetch_data_safe calls of get_us_indicators in program order, then
\* the one of enhanced_veto_logic.
Requests ==
    <<"^VIX", "^MOVE", "XLY", "XLP", "SPY", "HYG", "TLT", "IYR", "UUP", "^TNX",
      "^TNX", "^IRX", "QQQ", "SOXX", "BTC-USD", "^VIX">>

Symbols == {Requests[i] : i \in DOMAIN Requests}

\* A first run and a second run in the same process.
Runs == {1, 2}

\* The provider answers every symbol with a long history, or fails on one.
AllOk == [s \in Symbols |-> Steady("us_econ_yu", LongRows)]

YuFailures ==
    {Steady("us_econ_yu", Raise), Steady("us_econ_yu", 0),
     <<NoClose, 0, LongRows>>}

ProviderChoices ==
    {AllOk} \cup {[AllOk EXCEPT ![s] = b] : s \in Symbols, b \in YuFailures}

NoCalls == [s \in Symbols |-> 0]

NothingReceived == [ticker |-> "", rows |-> 0, fetched_run |-> 0]

IdleYu ==
    /\ run = 0
    /\ analyzer = 0
    /\ cache = <<>>
    /\ provider = <<>>
    /\ provider_calls = <<>>
    /\ data_issues = <<>>
    /\ received = NothingReceived

\* A faulty cache: an empty result is not stored.
cache_put_nonempty_only(c, key, value) ==
    IF value.rows = 0 THEN c
    ELSE [k \in DOMAIN c \cup {key} |-> IF k = key THEN value ELSE c[k]]

\* lru_cache stores the value the call returned under (self, ticker); with 14
\* symbols and two analyzers the 32 entries of maxsize are never exceeded.
cache_put(c, key, value) ==
    [k \in DOMAIN c \cup {key} |-> IF k = key THEN value ELSE c[k]]

CountCalls(log) == Len(SelectSeq(log, LAMBDA e : e = "call"))

\* After the fetch: the next request, the veto check, or the end of the run.
YuAdvance ==
    /\ step' = step + 1
    /\ pc' = IF step = Len(Requests) THEN "done"
             ELSE IF step = Len(Requests) - 1 THEN "veto" ELSE "collect"
    /\ UNCHANGED <<variant, df_batch, s_spy, indicators, last, report, f_beh,
                   f_out, grid, args, result, cc_vars, run, analyzer, provider>>

\* analyzer.fetch_data_safe(ticker): the key is in the cache
CachedFetchHit ==
    /\ variant = "us_econ_yu" /\ pc \in {"collect", "veto"}
    /\ LET key == <<analyzer, Requests[step]>> IN
       /\ key \in DOMAIN cache
       /\ received' = [ticker |-> key[2], rows |-> cache[key].rows,
                       fetched_run |-> cache[key].fetched_run]
    /\ UNCHANGED <<cache, provider_calls, data_issues>>
    /\ YuAdvance

\* analyzer.fetch_data_safe(ticker): the retry loop runs and its value is cached
CachedFetchMiss ==
    /\ variant = "us_econ_yu" /\ pc \in {"collect", "veto"}
    /\ LET ticker == Requests[step]
           key == <<analyzer, ticker>>
           out == fetch_data_safe("us_econ_yu", provider[ticker])
           value == [rows |-> out.rows, fetched_run |-> run]
       IN /\ key \notin DOMAIN cache
          /\ cache' = cache_put(cache, key, value)
          /\ provider_calls' =
               [provider_calls EXCEPT ![ticker] = @ + CountCalls(out.log)]
          /\ data_issues' =
               [data_issues EXCEPT ![analyzer] =
                  IF out.issues > 0 THEN Append(@, ticker) ELSE @]
          /\ received' = [ticker |-> ticker, rows |-> out.rows,
                          fetched_run |-> run]
    /\ YuAdvance

\* The provider's data changed and get_us_indicators runs again.
Rerun(a) ==
    /\ variant = "us_econ_yu" /\ pc = "done"
    /\ run + 1 \in Runs
    /\ run' = run + 1
    /\ analyzer' = a
    /\ provider' \in ProviderChoices
    /\ provider_calls' = NoCalls
    /\ received' = NothingReceived
    /\ step' = 1
    /\ pc' = "collect"
    /\ UNCHANGED <<variant, df_batch, s_spy, indicators, last, report, f_beh,
                   f_out, grid, args, result, cc_vars, cache, data_issues>>

\* get_us_indicators(analyzer) again with the analyzer of the first run
RerunSameAnalyzer == Rerun(analyzer)

\* analyzer = MacroAnalyzer(); get_us_indicators(analyzer)
RerunNewAnalyzer == Rerun(analyzer + 1)

-----------------------------------------------------------------------------
(* china_s: the rotation dashboard with its leader deep dive *)

\* The codes of CHAMPION_TICKERS.
ChampionCodes ==
    {"512000.SS", "510650.SS", "515290.SS", "159928.SZ", "510410.SS",
     "159915.SZ", "512480.SS", "510850.SS", "159929.SZ", "510300.SS",
     "510500.SS", "510050.SS"}

\* DEEP_DIVE_CONFIG as shipped, per champion code: an entry with baskets
\* ("chain") or a "_ref" to a key that has one ("ref").
ShippedConfig ==
    [c \in ChampionCodes |->
       IF c \in {"515290.SS", "510650.SS", "510500.SS", "510050.SS"}
       THEN "ref" ELSE "chain"]

\* The shipped configuration, and every configuration in which one code has
\* no entry ("missing") or a "_ref" to a key that is not configured
\* ("dangling").
Configurations ==
    {ShippedConfig} \cup
    {[ShippedConfig EXCEPT ![c] = k] :
       c \in ChampionCodes, k \in {"missing", "dangling"}}

\* config = DEEP_DIVE_CONFIG.get(leader_code), followed through "_ref":
\* is there a configuration to analyse?
resolved(config, leader_code) == config[leader_code] \in {"chain", "ref"}

HasConfigError(config) == \E c \in ChampionCodes : ~resolved(config, c)

IdleCC ==
    /\ deep_dive_config = <<>>
    /\ leader = ""
    /\ events = <<>>

\* yf.download of the champion codes; too little common history or an
\* exception ends the script with sys.exit()
DownloadChampions ==
    /\ variant = "china_s" /\ pc = "scan"
    /\ events' = Append(events, "download")
    /\ \E outcome \in {"raise", "short", "ok"} :
          pc' = IF outcome = "ok" THEN "rank" ELSE "exited"
    /\ UNCHANGED <<yu_vars, variant, step, df_batch, s_spy, indicators, last,
                   report, f_beh, f_out, grid, args, result, deep_dive_config,
                   leader>>

\* etf_ranking_data.sort(...); leader_etf = etf_ranking_data[0]
RankLeader ==
    /\ variant = "china_s" /\ pc = "rank"
    /\ leader' \in ChampionCodes
    /\ pc' = "deep_dive"
    /\ UNCHANGED <<yu_vars, variant, step, df_batch, s_spy, indicators, last,
                   report, f_beh, f_out, grid, args, result, deep_dive_config,
                   events>>

\* run_deep_dive_analysis(leader_code, leader_name): the configuration is
\* looked up; an unresolved one is printed and skipped, a resolved one has
\* its chain downloaded.
RunDeepDiveAnalysis ==
    /\ variant = "china_s" /\ pc = "deep_dive"
    /\ events' = IF resolved(deep_dive_config, leader)
                 THEN Append(events, "download")
                 ELSE Append(events, "config_unresolved")
    /\ pc' = "write"
    /\ UNCHANGED <<yu_vars, variant, step, df_batch, s_spy, indicators, last,
                   report, f_beh, f_out, grid, args, result, deep_dive_config,
                   leader>>

\* the HTML report is written to CC.html
WriteReport ==
    /\ variant = "china_s" /\ pc = "write"
    /\ pc' = "done"
    /\ UNCHANGED <<yu_vars, cc_vars, variant, step, df_batch, s_spy, indicators,
                   last, report, f_beh, f_out, grid, args, result>>

-----------------------------------------------------------------------------
(* Specifications *)

Init ==
    /\ IdleYu /\ IdleCC
    /\ variant \in Variants
    /\ pc = "collect"
    /\ step = 1
    /\ df_batch = "none"
    /\ s_spy = 0
    /\ indicators = EmptyIndicators
    /\ last = [blk |-> 0, tr |-> NoTrace]
    /\ report = NoReport
    /\ f_beh = <<>>
    /\ f_out = NoFetch
    /\ grid = "run"
    /\ args = NoCall
    /\ result = NoCall

Next ==
    \/ AnalyzeSingle
    \/ AnalyzeRatio
    \/ AnalyzeComposite
    \/ AnalyzeVolatility
    \/ AnalyzeTreasury
    \/ FetchAllData
    \/ AnalyzeBatchSingle
    \/ AnalyzeBatchPair
    \/ GenerateReport

Spec == Init /\ [][Next]_vars

\* fetch_data_safe alone, against every provider behaviour
InitFetch ==
    /\ IdleYu /\ IdleCC
    /\ variant \in FetchVariants
    /\ pc = "fetch"
    /\ f_beh \in Behaviours(variant)
    /\ f_out = NoFetch
    /\ step = 1
    /\ df_batch = "none"
    /\ s_spy = 0
    /\ indicators = EmptyIndicators
    /\ last = [blk |-> 0, tr |-> NoTrace]
    /\ report = NoReport
    /\ grid = "run"
    /\ args = NoCall
    /\ result = NoCall

NextFetch == FetchDataSafe

SpecFetch == InitFetch /\ [][NextFetch]_vars

\* The report on every combination of indicator levels
InitReport ==
    /\ IdleYu /\ IdleCC
    /\ variant \in Variants
    /\ pc = "collect"
    /\ step = 1
    /\ df_batch = "none"
    /\ s_spy = 0
    /\ indicators = EmptyIndicators
    /\ last = [blk |-> 0, tr |-> NoTrace]
    /\ report = NoReport
    /\ f_beh = <<>>
    /\ f_out = NoFetch
    /\ grid = "levels"
    /\ args = NoCall
    /\ result = NoCall

SpecReport == InitReport /\ [][Next]_vars

-----------------------------------------------------------------------------
(* Properties *)

Collected == pc \in {"report", "done"}

LastBlk == Config(variant)[last.blk]

\* The dict the last indicator block appended.
LastEntry ==
    LET items == indicators[LastBlk.dim] IN items[Len(items)]

AllEntries == Flatten(indicators)

\* C1: a data failure of one indicator never aborts the run: collection
\* followed by report generation completes and produces an assessment.
C1_RunCompletes ==
    pc = "done" => report.status = "done" /\ report.final_risk # ""

\* C2: every configured indicator gives exactly one entry, whatever the fetch
\* outcomes: each block appends one dict, each dimension ends with as many
\* entries as it has configured indicators, and an entry of an indicator whose
\* data failed is gray with a z-score of 0.
C2_OneEntryPerIndicator ==
    /\ last.blk >= 1 =>
         /\ last.tr.appended = 1
         /\ ~last.tr.scored =>
              /\ LastEntry.level = "gray"
              /\ "z" \in DOMAIN LastEntry => LastEntry.z = 0
    /\ Collected =>
         \A d \in DimSet : Len(indicators[d]) = Configured(variant, d)

\* C3: every entry handed to aggregation and rendering, the gray entries of
\* the failure paths included, carries the fields of a scored entry.
C3_SameShape ==
    \A i \in 1..Len(AllEntries) : DOMAIN AllEntries[i] = FullKeys(variant)

\* C4: a series shorter than the minimum window that reaches the scorer gives
\* an entry with a z-score of 0 and level gray, never green, yellow, orange
\* or red.
C4_ShortSeriesGray ==
    (/\ last.blk >= 1
     /\ last.tr.scored
     /\ last.tr.appended = 1
     /\ last.tr.scored_rows < min_data_points(variant))
    => /\ LastEntry.level = "gray"
       /\ "z" \in DOMAIN LastEntry /\ LastEntry.z = 0

\* The computed weighted score exceeds k.
ScoreAbove(r, k) ==
    r.total_score > k * ScoreUnit \/ (r.total_score = k * ScoreUnit /\ r.excess > 0)

EconDone == pc = "done" /\ variant \in EconVariants /\ report.status = "done"

\* C5: the band of a completed econ report is a total function of the veto
\* set and the weighted score: red if a veto fired whatever the score,
\* otherwise orange above 6, otherwise yellow above 3, otherwise green; red
\* is reached if and only if a veto fired.
C5_BandFunction ==
    EconDone =>
      /\ report.final_risk \in {"red", "orange", "yellow", "green"}
      /\ report.veto_msgs # <<>> => report.final_risk = "red"
      /\ report.veto_msgs = <<>> =>
           report.final_risk =
             IF ScoreAbove(report, 6) THEN "orange"
             ELSE IF ScoreAbove(report, 3) THEN "yellow" ELSE "green"
      /\ report.final_risk = "red" <=> report.veto_msgs # <<>>

\* A veto fired on a score that alone maps to the lowest band.
C5_VetoOnLowScore ==
    /\ EconDone
    /\ report.veto_msgs # <<>>
    /\ ~ScoreAbove(report, 3)
    /\ report.final_risk = "red"

\* The veto predicates of the run and their truth on the collected levels.
RulesNow == veto_rules(variant, status_tracker(variant, indicators))

Reported(msg) == \E k \in 1..Len(report.veto_msgs) : report.veto_msgs[k] = msg

\* C6 as stated: the reported veto messages are exactly the predicates that
\* hold for the indicator levels.
C6_AllTrueVetoesReported ==
    (pc = "done" /\ report.veto_reached) =>
      \A i \in 1..Len(RulesNow) : RulesNow[i][2] <=> Reported(RulesNow[i][1])

\* The early warning of us_econ, appended only to an empty collection.
IsEarlyWarning(i) == variant = "us_econ" /\ i = 3

\* C6 amended: the reported veto messages are exactly the predicates that
\* hold, except that us_econ reports its early warning only when no other
\* veto predicate holds.
C6_VetoesReportedBarEarlyWarning ==
    (pc = "done" /\ report.veto_reached) =>
      \A i \in 1..Len(RulesNow) :
        Reported(RulesNow[i][1]) <=>
          /\ RulesNow[i][2]
          /\ IsEarlyWarning(i) => \A j \in 1..(i - 1) : ~RulesNow[j][2]

\* Two predicates hold at once and both are reported.
C6_TwoVetoesReported ==
    /\ pc = "done" /\ report.veto_reached
    /\ \E i, j \in 1..Len(RulesNow) :
         /\ i < j
         /\ RulesNow[i][2] /\ RulesNow[j][2]
         /\ Reported(RulesNow[i][1]) /\ Reported(RulesNow[j][1])

\* C7: a fallback symbol is fetched when and only when one is configured and
\* the primary returned fewer than the minimum required points.
C7_FallbackIffShortPrimary ==
    (last.blk >= 1 /\ LastBlk.kind \in {"single", "bsingle"}) =>
      (last.tr.fb_fetched <=>
         (LastBlk.b # "" /\ last.tr.primary_rows < min_data_points(variant)))

\* C8: the ticker label of a scored entry is the symbol whose series was
\* scored: the fallback symbol when the series came from the fallback, the
\* primary when it came from the primary.
C8_LabelIsScoredSymbol ==
    (/\ last.blk >= 1
     /\ LastBlk.kind \in {"single", "bsingle"}
     /\ last.tr.scored)
    => /\ "ticker" \in DOMAIN LastEntry
       /\ LastEntry.ticker = last.tr.scored_sym

\* An attempt whose result fetch_data_safe accepts.
Usable(v, o) == IF v = "us_econ_yu" THEN o >= 1 ELSE o > 10

FirstUsable ==
    {i \in DOMAIN f_beh :
       Usable(variant, f_beh[i]) /\ \A j \in 1..(i - 1) : ~Usable(variant, f_beh[j])}

Calls == Len(SelectSeq(f_out.log, LAMBDA e : e = "call"))

RetryCount == IF variant \in EconVariants THEN 2 ELSE 3

\* C9: fetch_data_safe calls the provider at most the retry count (2 or 3)
\* times, returns the series of the first usable attempt without calling
\* again, returns an empty series when no attempt was usable, and lets no
\* provider exception through.
C9_FetchFailsSoftly ==
    pc = "fetched" =>
      /\ ~f_out.raised
      /\ Calls <= RetryCount
      /\ \A i \in FirstUsable : Calls = i /\ f_out.rows = f_beh[i]
      /\ FirstUsable = {} => Calls = RetryCount /\ f_out.rows = 0

\* The provider raised, then answered too little, and the call came back empty.
C9_GaveUpEmpty ==
    /\ pc = "fetched"
    /\ f_beh[1] = Raise
    /\ FirstUsable = {}
    /\ Calls = RetryCount
    /\ f_out.rows = 0

\* C10: when every indicator of every dimension is gray the weighted score
\* is the neutral 5 (5 per dimension times weights that sum to 1).
C10_AllGrayIsNeutral ==
    (/\ pc = "done"
     /\ variant \in EconVariants
     /\ \A i \in 1..Len(AllEntries) : AllEntries[i].level = "gray")
    => report.total_score = 5 * ScoreUnit

\* Number of items of a dimension at a level.
CountLevel(d, level) ==
    Cardinality({i \in 1..Len(indicators[d]) : indicators[d][i].level = level})

\* Sum of the severities of a dimension: red 10, orange 6, yellow 3, green 0,
\* gray 5.
SeveritySum(d) ==
    10 * CountLevel(d, "red") + 6 * CountLevel(d, "orange")
    + 3 * CountLevel(d, "yellow") + 5 * CountLevel(d, "gray")

\* weight (hundredths) times average severity, times ScoreUnit / 100.
WeightedAverage(d) ==
    (weights(variant)[d] * SeveritySum(d) * 6) \div Len(indicators[d])

\* C11: the weighted score of a completed econ report is the sum over the
\* dimensions of the average severity times the dimension's weight, and it
\* lies between 0 and 10.
C11_ScoreIsWeightedAverage ==
    EconDone =>
      /\ report.total_score =
           WeightedAverage("E") + WeightedAverage("S")
           + WeightedAverage("P") + WeightedAverage("T")
      /\ report.total_score >= 0
      /\ report.total_score <= 10 * ScoreUnit
      /\ report.total_score = 10 * ScoreUnit => report.excess = 0

\* Every indicator is red and the score is the top of the scale.
C11_TopOfScale ==
    /\ EconDone
    /\ \A i \in 1..Len(AllEntries) : AllEntries[i].level = "red"
    /\ report.total_score = 10 * ScoreUnit

\* Lone calls of the classifier, the scorer and the aligner
InitFn ==
    /\ IdleYu /\ IdleCC
    /\ variant = "none"
    /\ pc = "call"
    /\ args \in ClassifyArgs \cup ScoreArgs \cup AlignArgs \cup PriceArgs
                \cup RatioArgs \cup StatusArgs
    /\ result = NoCall
    /\ step = 1
    /\ df_batch = "none"
    /\ s_spy = 0
    /\ indicators = EmptyIndicators
    /\ last = [blk |-> 0, tr |-> NoTrace]
    /\ report = NoReport
    /\ f_beh = <<>>
    /\ f_out = NoFetch
    /\ grid = "run"

NextFn ==
    Classify \/ Score \/ Align \/ ReturnPrices \/ Synthesize \/ StatusText

SpecFn == InitFn /\ [][NextFn]_vars

Classified == pc = "returned" /\ result.fn = "classify"

\* Severity rank: gray < green < yellow < orange < red; the dark_orange and
\* dark_red of us_econ_yu rank with orange and red, its grey with gray.
Rank(level) ==
    CASE level \in {"gray", "grey"} -> 0
      [] level = "green" -> 1
      [] level = "yellow" -> 2
      [] level \in {"orange", "dark_orange"} -> 3
      [] level \in {"red", "dark_red"} -> 4

\* C12: classification is monotonic in the risk score: for z1 <= z2 the
\* severity rank of the level of z2 is at least that of z1.
C12_ClassifyMonotonic ==
    (Classified /\ args.z1 <= args.z2) => Rank(result.l1) <= Rank(result.l2)

\* Classifiers configured with a red, an orange and a green threshold.
ThreeThresholdVariants == Variants

Thresholds(v) ==
    IF v = "usa_stock" THEN [red |-> 22, orange |-> 12, green |-> -10]
    ELSE z_thresholds(v)

Scored == pc = "returned" /\ result.fn = "score"

IsNumber(z) == z # None /\ z # NaN

Abs(x) == IF x < 0 THEN -x ELSE x

\* The Winsorization bound of the variant, in tenths: 4.0 or 4.5.
ClipBoundOf(v) == IF v \in EconVariants THEN 40 ELSE 45

\* C14: for every series and both direction flags the score the scorer
\* returns is within the Winsorization bounds.
C14_ScoreWithinClip ==
    Scored =>
      /\ IsNumber(result.direct.z) => Abs(result.direct.z) <= ClipBoundOf(args.v)
      /\ IsNumber(result.inverse.z) => Abs(result.inverse.z) <= ClipBoundOf(args.v)

\* Scripts whose scorer takes the direction flag.
FlagInScorer == EconVariants \cup StockVariants

NoiseFloor == 50000000

\* C16: whenever the dispersion at the evaluation point is below the noise
\* floor the divisor is the floor, so the unclipped z is at most
\* abs(currentBias - center) / floor.
C16_DivisorFloored ==
    (Scored /\ std_defined(args.v, args.rows) /\ args.std < NoiseFloor) =>
      /\ result.divisor # 0 => result.divisor = NoiseFloor
      /\ Abs(result.unclipped) <= Quot(10 * Abs(args.dev), NoiseFloor)

Aligned == pc = "returned" /\ result.fn = "align"

BothObserved == args.a # {} /\ args.b # {}

\* The later of the two first observations.
LaterStart == LET fa == MinOf(args.a)
                  fb == MinOf(args.b)
              IN IF fa > fb THEN fa ELSE fb

\* The earlier of the two last observations.
EarlierEnd == LET la == MaxOf(args.a)
                  lb == MaxOf(args.b)
              IN IF la < lb THEN la ELSE lb

\* C17: align(A, B) returns two series on the union of A's and B's dates
\* from the later first observation on, each holding at every date its most
\* recent observation at or before the date, with identical date sets.
C17_AlignUnionForwardFill ==
    (Aligned /\ BothObserved) =>
      LET axis == {t \in args.a \cup args.b : t >= LaterStart} IN
      /\ DOMAIN result.ab.s1 = axis
      /\ DOMAIN result.ab.s2 = axis
      /\ \A t \in axis :
           /\ result.ab.s1[t] = MaxOf({d \in args.a : d <= t})
           /\ result.ab.s2[t] = MaxOf({d \in args.b : d <= t})

\* C18: align(A, B) and align(B, A) have the same dates with the two outputs
\* swapped, and every date of either input that lies in the overlap region
\* is in the result.
C18_AlignCommutesKeepsOverlap ==
    (Aligned /\ BothObserved) =>
      /\ result.ab.s1 = result.ba.s2
      /\ result.ab.s2 = result.ba.s1
      /\ \A t \in args.a \cup args.b :
           (t >= LaterStart /\ t <= EarlierEnd) => t \in DOMAIN result.ab.s1

\* C19: a derived series (ratio, product, spread) whose input is empty or
\* whose aligned length is below the minimum history gives one gray entry
\* with a z-score of 0: the indicator is neither classified nor omitted.
C19_DerivedFailsSoftly ==
    (/\ last.blk >= 1
     /\ LastBlk.kind \in {"ratio", "ext2", "bpair"}
     /\ last.tr.scored_rows < min_data_points(variant))
    => /\ last.tr.appended = 1
       /\ LastEntry.level = "gray"
       /\ "z" \in DOMAIN LastEntry => LastEntry.z = 0

\* C20: every series handed to alignment, synthesis or scoring holds only
\* strictly positive prices.
C20_OnlyPositivePrices ==
    (pc = "returned" /\ result.fn = "prices") =>
      \A p \in result.prices : p > 0

\* The series passes the scorer's length guard.
PastLengthGuard(v, rows) ==
    CASE v = "us_econ_yu" -> rows >= window_long
      [] v = "usa_stock" -> rows >= min_data_points(v)
      [] OTHER -> rows >= scorer_min_len(v)

\* C22: when the rolling dispersion of the bias is NaN or exactly zero at
\* the latest point, the scorer returns the number 0 under both direction
\* flags.
C22_DegenerateDispersionScoresZero ==
    (/\ Scored
     /\ PastLengthGuard(args.v, args.rows)
     /\ \/ ~std_defined(args.v, args.rows)
        \/ args.std = 0 /\ args.dev = 0)
    => /\ result.direct.z = 0
       /\ result.inverse.z = 0

Synthesized == pc = "returned" /\ result.fn = "ratio"

\* C23: for B = 2 x A on the same dates the ratio B / A is 2.0 on every
\* date, and the scorer gives a constant series a score of 0 under both
\* direction flags.
C23_DoubleGivesConstantTwo ==
    Synthesized =>
      /\ (\A t \in DOMAIN args.a : args.b[t] = 2 * args.a[t]) =>
           \A t \in DOMAIN result.series : result.series[t] = 200
      /\ IsConstant(result.series) =>
           result.direct.z = 0 /\ result.inverse.z = 0

\* B = 2 x A with A moving, on a history long enough to be scored.
C23_MovingInputsConstantRatio ==
    /\ Synthesized
    /\ args.a[1] = 1 /\ args.a[2] = 3
    /\ \A t \in DOMAIN args.a : args.b[t] = 2 * args.a[t]
    /\ args.rows = 600 /\ args.dev # 0 /\ args.std # 0
    /\ \A t \in DOMAIN result.series : result.series[t] = 200
    /\ result.direct.z = 0 /\ result.inverse.z = 0

\* C24: in every execution of fetch_data_safe a sleep lies between any two
\* consecutive provider calls, whether the earlier attempt raised or returned
\* an empty or too small frame.
C24_BackoffBetweenAttempts ==
    pc = "fetched" =>
      \A i \in 1..(Len(f_out.log) - 1) :
        f_out.log[i] = "call" => f_out.log[i + 1] = "sleep"

ChinaStockDone ==
    pc = "done" /\ variant = "china_stock" /\ report.status = "done"

\* The status slots of the finished run.
Slots == status_tracker(variant, indicators)

\* C26: the overall status of china_stock is SYSTEM FAILURE iff (FX and
\* Market red) or (RealEstate and RiskOn red); otherwise Structural Stress
\* iff FX or RealEstate is red; otherwise Oversold Opportunity iff Market is
\* red and FX is green or yellow; otherwise Stable.
C26_ChinaStockStatus ==
    ChinaStockDone =>
      LET failure  == \/ Slots.FX = "red" /\ Slots.Market = "red"
                      \/ Slots.RealEstate = "red" /\ Slots.RiskOn = "red"
          stress   == Slots.FX = "red" \/ Slots.RealEstate = "red"
          oversold == Slots.Market = "red" /\ Slots.FX \in {"green", "yellow"}
      IN report.final_risk =
           IF failure THEN "system_failure"
           ELSE IF stress THEN "structural_stress"
           ELSE IF oversold THEN "oversold_opportunity"
           ELSE "stable"

\* Market red with FX orange and RealEstate not red is reported Stable.
C26_RedMarketOrangeFxStable ==
    /\ ChinaStockDone
    /\ Slots.Market = "red" /\ Slots.FX = "orange"
    /\ Slots.RealEstate # "red"
    /\ report.final_risk = "stable"

UsEconDone == pc = "done" /\ variant = "us_econ" /\ report.status = "done"

LiquidityShock  == Slots.VIX = "red" /\ Slots.Credit = "red"
TighteningStorm == Slots.Rates = "red" /\ Slots.Dollar = "red"
EarlyWarning    == /\ Slots.VIX \in {"red", "orange"}
                   /\ Slots.Credit \in {"red", "orange"}

\* C27: in us_econ the veto is triggered, and the band is the crisis band,
\* iff (VIX and Credit red) or (Rates and Dollar red) or (VIX and Credit each
\* red or orange); the early-warning message is reported only when neither
\* red pair holds.
C27_UsEconVeto ==
    UsEconDone =>
      /\ report.veto_msgs # <<>> <=>
           (LiquidityShock \/ TighteningStorm \/ EarlyWarning)
      /\ report.final_risk = "red" <=>
           (LiquidityShock \/ TighteningStorm \/ EarlyWarning)
      /\ Reported("early warning") <=>
           (EarlyWarning /\ ~LiquidityShock /\ ~TighteningStorm)

\* VIX and Credit merely orange force the crisis band on a low score.
C27_TwoOrangeForceCrisis ==
    /\ UsEconDone
    /\ Slots.VIX = "orange" /\ Slots.Credit = "orange"
    /\ ~TighteningStorm
    /\ ~ScoreAbove(report, 6)
    /\ report.veto_msgs = <<"early warning">>
    /\ report.final_risk = "red"

\* C28: in usa_stock get_status_text(z, inverse=True) gives the level of
\* get_status_text(-z, inverse=False), for every raw z, the thresholds
\* included.
C28_StatusTextSymmetric ==
    (pc = "returned" /\ result.fn = "status") =>
      result.inverse = result.negated

\* The raw score -2.2 with the inverse flag: on the threshold, still orange.
C28_AtExtremeThreshold ==
    /\ pc = "returned" /\ result.fn = "status"
    /\ args.z = -22
    /\ result.inverse = "orange" /\ result.negated = "orange"

\* Entries of us_econ's P dimension that are the Treasury indicator.
TreasuryEntries ==
    {i \in 1..Len(indicators["P"]) :
       indicators["P"][i].name \in
         {"Meizhai shouyilv (10Y)", "Meizhai shouyilv daili (TLT)"}}

\* C29: in the variants that compute a weighted score every dimension holds
\* at least one indicator when the report is generated, whatever the fetch
\* outcomes; us_econ's P dimension holds exactly one Treasury indicator; the
\* per-dimension average never divides by zero.
C29_DimensionsNonEmpty ==
    (Collected /\ variant \in EconVariants) =>
      /\ \A d \in DimSet : Len(indicators[d]) >= 1
      /\ variant = "us_econ" => Cardinality(TreasuryEntries) = 1
      /\ report.error # "ZeroDivisionError"

\* Every fetch of us_econ failed: every entry is gray and the Treasury
\* indicator is the TLT proxy.
C29_AllFailedStillFilled ==
    /\ Collected /\ variant = "us_econ"
    /\ \A i \in 1..Len(AllEntries) : AllEntries[i].level = "gray"
    /\ \E i \in TreasuryEntries :
         indicators["P"][i].name = "Meizhai shouyilv daili (TLT)"
    /\ \A d \in DimSet : Len(indicators[d]) = 2

\* us_econ_yu: whole runs of get_us_indicators and enhanced_veto_logic
InitYu ==
    /\ variant = "us_econ_yu"
    /\ pc = "collect"
    /\ step = 1
    /\ run = 1
    /\ analyzer = 1
    /\ cache = <<>>
    /\ provider \in ProviderChoices
    /\ provider_calls = NoCalls
    /\ data_issues = [a \in Runs |-> <<>>]
    /\ received = NothingReceived
    /\ IdleCC
    /\ df_batch = "none"
    /\ s_spy = 0
    /\ indicators = EmptyIndicators
    /\ last = [blk |-> 0, tr |-> NoTrace]
    /\ report = NoReport
    /\ f_beh = <<>>
    /\ f_out = NoFetch
    /\ grid = "run"
    /\ args = NoCall
    /\ result = NoCall

NextYu ==
    \/ CachedFetchHit
    \/ CachedFetchMiss
    \/ RerunSameAnalyzer
    \/ RerunNewAnalyzer

SpecYu == InitYu /\ [][NextYu]_vars

\* C25: the cache of fetched series lives for one run: a series received in
\* a run was fetched from the provider during that run.
C25_CacheScopedToRun ==
    (variant = "us_econ_yu" /\ received.ticker # "") =>
      received.fetched_run = run

\* Entries of an analyzer's data_issues for a ticker.
IssuesOf(a, ticker) ==
    Len(SelectSeq(data_issues[a], LAMBDA t : t = ticker))

\* C30: in a run of us_econ_yu the provider is called at most max_retries
\* times per symbol, however often the symbol is requested and whether the
\* fetch succeeded or failed, and data_issues holds at most one entry per
\* symbol.
C30_ProviderCallsBounded ==
    variant = "us_econ_yu" =>
      \A s \in Symbols :
        /\ provider_calls[s] <= retries("us_econ_yu")
        /\ \A a \in Runs : IssuesOf(a, s) <= 1

\* ^VIX failed on every attempt and was requested again by the veto check:
\* three provider calls, one issue, the empty result received from the cache.
C30_FailedFetchReused ==
    /\ variant = "us_econ_yu" /\ pc = "done" /\ run = 1
    /\ provider["^VIX"] = Steady("us_econ_yu", Raise)
    /\ provider_calls["^VIX"] = retries("us_econ_yu")
    /\ IssuesOf(1, "^VIX") = 1
    /\ received = [ticker |-> "^VIX", rows |-> 0, fetched_run |-> 1]

\* china_s: one run of the script under a configuration
InitCC ==
    /\ variant = "china_s"
    /\ pc = "scan"
    /\ deep_dive_config \in Configurations
    /\ leader = ""
    /\ events = <<>>
    /\ IdleYu
    /\ step = 1
    /\ df_batch = "none"
    /\ s_spy = 0
    /\ indicators = EmptyIndicators
    /\ last = [blk |-> 0, tr |-> NoTrace]
    /\ report = NoReport
    /\ f_beh = <<>>
    /\ f_out = NoFetch
    /\ grid = "run"
    /\ args = NoCall
    /\ result = NoCall

NextCC ==
    \/ DownloadChampions
    \/ RankLeader
    \/ RunDeepDiveAnalysis
    \/ WriteReport

SpecCC == InitCC /\ [][NextCC]_vars

====
